---- MODULE Spec2Model ----
(***************************************************************************)
(* Model of the AI Gym Buddy front end: the ChatInterface (src/src/chat.js) *)
(* with its OpenAIService collaborator (src/src/openai.js) and the          *)
(* StageManager (src/unnamed/part_001).                                     *)
(*                                                                          *)
(* Representation of JavaScript values:                                     *)
(*   - a text is a sequence of tokens; the token " " is white space, every  *)
(*     other token stands for a run of non-blank characters;                *)
(*   - an optional value is None (undefined / null) or Some(v);             *)
(*   - a profile answer is Str(s) for a string, Arr(q) for an array.        *)
(***************************************************************************)
EXTENDS Integers, Sequences, FiniteSets, TLC

\* ------------------------------------------------------------------ bounds
MaxMsgs == 5

MaxInflight == 2

MaxHistory == 3

\* the longest stage history of the application model: two passes from
\* Welcome to Chatting with a profile edit between them
MaxAppHistory == 6


\* ------------------------------------------------------- value encodings
None == <<>>

Some(v) == <<v>>

IsSome(o) == Len(o) = 1

Val(o) == o[1]

Str(s) == [arr |-> FALSE, items |-> <<s>>]

Arr(q) == [arr |-> TRUE, items |-> q]

Last(s) == s[Len(s)]

\* the texts a user types: empty, blank, plain, padded, with a blank inside
Texts ==
    { <<>>, <<" ">>, <<"a">>, <<" ", "a", " ">>, <<"a", " ", "a">> }

\* the values a caller can pass as `message`: nothing, or a string
MessageArgs == {None} \cup {Some(t) : t \in Texts}

\* String.prototype.trim
RECURSIVE TrimStart(_)
TrimStart(t) ==
    IF t = <<>> THEN t
    ELSE IF Head(t) = " " THEN TrimStart(Tail(t)) ELSE t

RECURSIVE TrimEnd(_)
TrimEnd(t) ==
    IF t = <<>> THEN t
    ELSE IF Last(t) = " " THEN TrimEnd(SubSeq(t, 1, Len(t) - 1)) ELSE t

Trim(t) == TrimEnd(TrimStart(t))

\* Array.prototype.join, the result as a text
RECURSIVE Join(_, _)
Join(q, sep) ==
    IF q = <<>> THEN <<>>
    ELSE IF Len(q) = 1 THEN <<q[1]>>
    ELSE <<q[1], sep>> \o Join(Tail(q), sep)

\* String.prototype.includes on texts
Contains(t, e) ==
    \E i \in 1..(Len(t) - Len(e) + 1) : SubSeq(t, i, i + Len(e) - 1) = e

\* ------------------------------------------------------------ variables
VARIABLES
    profile,              \* UserProfile.profile
    currentQuestionIndex, \* UserProfile.currentQuestionIndex
    isComplete,           \* UserProfile.isComplete
    chatInterface,        \* TRUE once the ChatInterface has been constructed
    conversationHistory,  \* ChatInterface.conversationHistory
    isLoading,            \* ChatInterface.isLoading
    messageContainer,     \* TRUE when ChatInterface.messageContainer is set
    rendered,             \* the message elements held by the container
    typingIndicator,      \* TRUE when the typing indicator element exists
    messageIdCounter,     \* ChatInterface.messageIdCounter
    inflight,             \* requests the ChatInterface has sent and awaits
    abandoned,            \* requests awaited by ChatInterfaces since replaced
    currentStage,         \* StageManager.currentStage
    stageHistory,         \* StageManager.stageHistory
    listeners,            \* StageManager.listeners, in insertion order
    isTransitioning,      \* StageManager.isTransitioning
    notified,             \* listener invocations made by the last call
    lastTarget,           \* the target of the last setStage that returned true
    lastOp                \* the call that was made last, and what it returned

chatVars == <<chatInterface, conversationHistory, isLoading, messageContainer,
              rendered, typingIndicator, messageIdCounter, inflight,
              abandoned>>

stageVars == <<currentStage, stageHistory, listeners, isTransitioning, notified,
               lastTarget>>

profileVars == <<profile, currentQuestionIndex, isComplete>>

vars == <<profileVars, chatVars, stageVars, lastOp>>

\* ------------------------------------------------------- configuration
WELCOME == "welcome"

ONBOARDING == "onboarding"

SUMMARY == "summary"

CHATTING == "chatting"

\* Object.values(config.stages)
Stages == <<WELCOME, ONBOARDING, SUMMARY, CHATTING>>

\* config.onboarding.questions
Questions ==
    << [id |-> "goals", type |-> "select",
        options |-> <<"Weight Loss", "Muscle Building", "General Fitness",
                      "Strength Training", "Endurance">>],
       [id |-> "level", type |-> "select",
        options |-> <<"Beginner", "Intermediate", "Advanced">>],
       [id |-> "equipment", type |-> "checkbox",
        options |-> <<"Gym Membership", "Home Weights", "Resistance Bands",
                      "No Equipment">>],
       [id |-> "time", type |-> "select",
        options |-> <<"15-30 minutes", "30-45 minutes", "45-60 minutes",
                      "60+ minutes">>] >>

\* ------------------------------------------------------------ UserProfile
\* the profile a new UserProfile holds
EmptyProfile ==
    [name |-> "", goals |-> Arr(<<>>), level |-> Str(""),
     equipment |-> Arr(<<>>), time |-> Str(""), completedAt |-> None]

RequiredFields == {"goals", "level", "equipment", "time"}

\* a string that is empty after trim()
IsBlank(s) == s \in {"", " "}

\* variant: a string is not trimmed before it is measured
FieldFilled_Untrimmed(value) ==
    IF value.arr THEN Len(value.items) > 0
    ELSE value.items[1] # ""

\* the test checkIfComplete applies to one field
FieldFilled(value) ==
    IF value.arr THEN Len(value.items) > 0
    ELSE ~IsBlank(value.items[1])

\* UserProfile.checkIfComplete: the value it returns (and stores in isComplete)
checkIfComplete(p) == \A f \in RequiredFields : FieldFilled(p[f])

\* UserProfile.getProfile
getProfile(p) == p

\* the fields of a UserProfile, as one record
User ==
    [profile |-> profile,
     currentQuestionIndex |-> currentQuestionIndex,
     isComplete |-> isComplete]

\* what a UserProfile method leaves and returns
Outcome(u, ret) == [u |-> u, ret |-> ret]

\* Array.prototype.includes
Includes(q, x) == \E i \in 1..Len(q) : q[i] = x

\* config.onboarding.questions.map(q => q.id)
QuestionIds == [i \in 1..Len(Questions) |-> Questions[i].id]

\* config.onboarding.questions.find(q => q.id === questionId)
FindQuestion(questionId) ==
    IF Includes(QuestionIds, questionId)
    THEN Some(Questions[CHOOSE i \in 1..Len(Questions) :
                            Questions[i].id = questionId])
    ELSE None

\* variant: no test of the length of a list
IsEmptyAnswer_StringsOnly(answer) ==
    IF answer.arr THEN FALSE ELSE answer.items[1] = ""

\* !answer || (Array.isArray(answer) && answer.length === 0)
IsEmptyAnswer(answer) ==
    IF answer.arr THEN Len(answer.items) = 0 ELSE answer.items[1] = ""

\* the answers a caller can pass: a string or a list of strings
AnswerArgs ==
    { Str(""), Arr(<<>>), Str("Intermediate"), Str("Expert"),
      Arr(<<"Home Weights">>), Arr(<<"Home Weights", "Sauna">>) }

\* the question ids a caller can pass: the four questions and another
QuestionArgs == {"goals", "level", "equipment", "time", "age"}

\* new Date().toISOString()
Timestamps == {"2024-01-01T00:00:00.000Z"}

\* UserProfile.getCurrentQuestion
getCurrentQuestion(u) ==
    IF u.currentQuestionIndex >= Len(Questions) THEN None
    ELSE Some(Questions[u.currentQuestionIndex + 1])

\* variant: the question before the last one has no next one
hasNextQuestion_SkipsLast(u) == u.currentQuestionIndex < Len(Questions) - 2

\* variant: the last question has a next one
hasNextQuestion_PastLast(u) == u.currentQuestionIndex < Len(Questions)

\* UserProfile.hasNextQuestion
hasNextQuestion(u) == u.currentQuestionIndex < Len(Questions) - 1

\* UserProfile.markComplete
markComplete(u, now) ==
    [u EXCEPT !.isComplete = TRUE, !.profile.completedAt = Some(now)]

\* UserProfile.nextQuestion
nextQuestion(u, now) ==
    IF hasNextQuestion(u)
    THEN LET u1 == [u EXCEPT !.currentQuestionIndex = @ + 1]
         IN  Outcome(u1, getCurrentQuestion(u1))
    ELSE Outcome(markComplete(u, now), None)

\* variant: the first question has a previous one
previousQuestion_BelowZero(u) ==
    IF u.currentQuestionIndex >= 0
    THEN LET u1 == [u EXCEPT !.currentQuestionIndex = @ - 1]
         IN  Outcome(u1, IF u1.currentQuestionIndex < 0 THEN None
                         ELSE getCurrentQuestion(u1))
    ELSE Outcome(u, None)

\* UserProfile.previousQuestion
previousQuestion(u) ==
    IF u.currentQuestionIndex > 0
    THEN LET u1 == [u EXCEPT !.currentQuestionIndex = @ - 1]
         IN  Outcome(u1, getCurrentQuestion(u1))
    ELSE Outcome(u, None)

\* UserProfile.setAnswer
setAnswer(u, questionId, answer) ==
    IF ~Includes(QuestionIds, questionId) THEN Outcome(u, FALSE)
    ELSE IF IsEmptyAnswer(answer) THEN Outcome(u, FALSE)
    ELSE Outcome([u EXCEPT !.profile[questionId] = answer], TRUE)

\* the names a caller can pass
NameArgs == {"", " ", "Sam", " Sam "}

\* String.prototype.trim on the names
TrimName(name) ==
    IF name = " Sam " THEN "Sam" ELSE IF name = " " THEN "" ELSE name

\* UserProfile.setName
setName(u, name) ==
    IF name = "" THEN Outcome(u, FALSE)
    ELSE IF TrimName(name) = "" THEN Outcome(u, FALSE)
    ELSE Outcome([u EXCEPT !.profile.name = TrimName(name)], TRUE)

\* answers without regard to the options: a blank string among them
PlainAnswers ==
    { Str(""), Arr(<<>>), Str(" "), Str("Intermediate"), Arr(<<"Home Weights">>) }

\* variant: the name outlives the reset
UserProfile_reset_KeepsName(u) ==
    [profile |-> [EmptyProfile EXCEPT !.name = u.profile.name],
     currentQuestionIndex |-> 0, isComplete |-> FALSE]

\* UserProfile.getProgress
getProgress(u) ==
    [currentQuestion |-> u.currentQuestionIndex + 1,
     totalQuestions |-> Len(Questions),
     answeredQuestions |-> u.currentQuestionIndex,
     isComplete |-> u.isComplete,
     canGoBack |-> u.currentQuestionIndex > 0,
     canGoNext |-> hasNextQuestion(u)]

\* UserProfile.reset
UserProfile_reset(u) ==
    [profile |-> EmptyProfile, currentQuestionIndex |-> 0, isComplete |-> FALSE]

\* the value validateAnswer returns
Validation(valid, error) == [valid |-> valid, error |-> error]

\* UserProfile.validateAnswer
validateAnswer(questionId, answer) ==
    LET question == FindQuestion(questionId)
    IN  IF ~IsSome(question)
        THEN Validation(FALSE, <<"Question not found">>)
        ELSE IF IsEmptyAnswer(answer)
        THEN Validation(FALSE, <<"Answer is required">>)
        ELSE IF Val(question).type = "select"
        THEN IF answer.arr
             THEN Validation(FALSE, <<"Invalid option selected">>)
             ELSE IF ~Includes(Val(question).options, answer.items[1])
             THEN Validation(FALSE, <<"Invalid option selected">>)
             ELSE Validation(TRUE, <<>>)
        ELSE IF ~answer.arr
        THEN Validation(FALSE, <<"Multiple selections expected">>)
        ELSE LET invalidOptions ==
                     SelectSeq(answer.items,
                               LAMBDA opt : ~Includes(Val(question).options, opt))
             IN  IF Len(invalidOptions) > 0
                 THEN Validation(FALSE, <<"Invalid options: ">>
                                            \o Join(invalidOptions, ", "))
                 ELSE Validation(TRUE, <<>>)

\* ------------------------------------------------------- OpenAIService
\* What the backend can do with one POST /chat: the fetch rejects, the
\* server answers with an error status, or it answers 200 with a body.
\* data.message is a string (Some text), missing (None) or another JSON
\* value, given here by its JSON.stringify rendering.
BackendOutcomes ==
    { [kind |-> "network", status |-> "", success |-> FALSE, isString |-> FALSE,
       message |-> None, details |-> Some(<<"Failed to fetch">>)],
      [kind |-> "http", status |-> "429", success |-> FALSE, isString |-> FALSE,
       message |-> None,
       details |-> Some(<<"Too many requests. Please try again later.">>)],
      [kind |-> "http", status |-> "500", success |-> FALSE, isString |-> FALSE,
       message |-> None, details |-> None],
      [kind |-> "ok", status |-> "200", success |-> FALSE, isString |-> FALSE,
       message |-> None, details |-> None],
      [kind |-> "ok", status |-> "200", success |-> TRUE, isString |-> TRUE,
       message |-> Some(<<"Do", " ", "squats">>), details |-> None],
      [kind |-> "ok", status |-> "200", success |-> TRUE, isString |-> TRUE,
       message |-> Some(<<>>), details |-> None],
      [kind |-> "ok", status |-> "200", success |-> TRUE, isString |-> FALSE,
       message |-> None, details |-> None] }

\* x || y on optional texts: y when x is undefined or the empty string
OrElse(x, y) ==
    IF ~IsSome(x) THEN y ELSE IF Val(x) = <<>> THEN y ELSE Val(x)

\* the message of the Error that OpenAIService.sendMessage throws inside
\* its try block for an outcome that is not a success
ThrownMessage(o) ==
    IF o.kind = "network" THEN Val(o.details)
    ELSE IF o.kind = "http"
         THEN OrElse(o.details, <<"HTTP ", o.status, ": ", "statusText">>)
         ELSE OrElse(o.details, <<"Backend returned unsuccessful response">>)

\* the outbound message list OpenAIService.sendMessage builds
OutboundMessages(message, history) ==
    history \o <<[role |-> "user", content |-> Trim(message)]>>

\* the object OpenAIService.sendMessage resolves to
ServiceResult(o) ==
    IF o.kind = "ok" /\ o.success
    THEN [success |-> TRUE, message |-> o.message, error |-> None]
    ELSE [success |-> FALSE, message |-> None,
          error |-> Some(OrElse(Some(ThrownMessage(o)),
                                <<"Failed to get response from AI">>))]

\* ------------------------------------------------------- ChatInterface
UnknownError == <<"Unknown error occurred">>

GenericError == <<"Sorry, something went wrong. Please try again.">>

ErrorPrefix == <<"Sorry, I encountered an error: ">>

GenericGreeting ==
    <<"Hi there! I'm your AI Gym Buddy!",
      "\n\nI see you haven't completed your profile yet, but I can still help you with general fitness advice! What questions do you have?">>

PersonalGreeting(p) ==
    <<"Hi ", IF p.name = "" THEN "there" ELSE p.name,
      "! I'm excited to help you with your ">>
    \o (IF p.goals.arr THEN Join(p.goals.items, " and ") ELSE p.goals.items)
    \o <<" goals. What would you like to work on today?">>

\* the fields of a ChatInterface, as one record
Chat ==
    [conversationHistory |-> conversationHistory,
     isLoading |-> isLoading,
     messageContainer |-> messageContainer,
     rendered |-> rendered,
     typingIndicator |-> typingIndicator,
     messageIdCounter |-> messageIdCounter]

\* ChatInterface.renderMessage: one more message element in the container
renderMessage(c, message) ==
    IF ~c.messageContainer THEN c
    ELSE [c EXCEPT !.rendered = Append(@, message)]

\* variant: every role is added to the context view
addMessage_AllRoles(c, role, content) ==
    LET id == c.messageIdCounter + 1
        message == [role |-> role, content |-> content, id |-> id]
        c1 == [c EXCEPT !.messageIdCounter = id,
                        !.conversationHistory =
                            Append(@, [role |-> role, content |-> content])]
    IN  renderMessage(c1, message)

\* variant: the counter is read and not advanced
addMessage_SameId(c, role, content) ==
    LET message == [role |-> role, content |-> content,
                    id |-> c.messageIdCounter + 1]
        c2 == IF role # "system"
              THEN [c EXCEPT !.conversationHistory =
                        Append(@, [role |-> role, content |-> content])]
              ELSE c
    IN  renderMessage(c2, message)

\* ChatInterface.addMessage
addMessage(c, role, content) ==
    LET id == c.messageIdCounter + 1
        message == [role |-> role, content |-> content, id |-> id]
        c1 == [c EXCEPT !.messageIdCounter = id]
        c2 == IF role # "system"
              THEN [c1 EXCEPT !.conversationHistory =
                        Append(@, [role |-> role, content |-> content])]
              ELSE c1
    IN  renderMessage(c2, message)

\* variant: the greeting does not look at the profile
addWelcomeMessage_Generic(c, p) == addMessage(c, "assistant", GenericGreeting)

\* ChatInterface.addWelcomeMessage
addWelcomeMessage(c, p) ==
    addMessage(c, "assistant",
               IF checkIfComplete(p) THEN PersonalGreeting(p)
               ELSE GenericGreeting)

\* ChatInterface.showTypingIndicator
showTypingIndicator(c) ==
    IF ~c.messageContainer THEN c
    ELSE [c EXCEPT !.typingIndicator = TRUE]

\* ChatInterface.hideTypingIndicator
hideTypingIndicator(c) == [c EXCEPT !.typingIndicator = FALSE]

\* variant: no guard against a call that is already being processed
AlreadyProcessing_Never(c) == FALSE

\* the guard at the head of sendMessage: a call is already being processed
AlreadyProcessing(c) == c.isLoading

\* variant: the text is tested without trimming it
IsEmptyMessage_Untrimmed(arg) ==
    IF ~IsSome(arg) THEN TRUE ELSE Len(Val(arg)) = 0

\* !message || message.trim().length === 0
IsEmptyMessage(arg) ==
    IF ~IsSome(arg) THEN TRUE ELSE Len(Trim(Val(arg))) = 0

\* what sendMessage hands to the service as conversationHistory
HistoryArgument(before, after) == after

\* variant: the user message is added as typed, not trimmed
SendAccepted_Untrimmed(c, arg, p) ==
    LET text == Val(arg)
        c1 == [c EXCEPT !.isLoading = TRUE]
        c2 == addMessage(c1, "user", text)
        c3 == showTypingIndicator(c2)
    IN  [chat |-> c3,
         request |-> [messages |->
                         OutboundMessages(text,
                             HistoryArgument(c.conversationHistory,
                                             c2.conversationHistory)),
                      userProfile |-> getProfile(p)]]

\* sendMessage up to its await: the state it leaves and the request it sends
SendAccepted(c, arg, p) ==
    LET text == Trim(Val(arg))
        c1 == [c EXCEPT !.isLoading = TRUE]
        c2 == addMessage(c1, "user", text)
        c3 == showTypingIndicator(c2)
    IN  [chat |-> c3,
         request |-> [messages |->
                         OutboundMessages(text,
                             HistoryArgument(c.conversationHistory,
                                             c2.conversationHistory)),
                      userProfile |-> getProfile(p)]]

\* variant: the flag is not cleared when the call returns
Finally_Stuck(c) == c

\* the finally block of sendMessage
Finally(c) == [c EXCEPT !.isLoading = FALSE]

\* response.success && response.message
IsReply(response) ==
    IF ~response.success THEN FALSE
    ELSE IF ~IsSome(response.message) THEN FALSE
    ELSE Val(response.message) # <<>>

\* variant: the error text of the response is dropped
SendResolved_NoErrorText(c, response) ==
    LET c1 == hideTypingIndicator(c)
    IN  IF IsReply(response)
        THEN [chat |-> Finally(addMessage(c1, "assistant", Val(response.message))),
              ret |-> response.message]
        ELSE [chat |-> Finally(addMessage(c1, "system",
                        ErrorPrefix \o UnknownError)),
              ret |-> None]

\* sendMessage after its await resolved with `response`
SendResolved(c, response) ==
    LET c1 == hideTypingIndicator(c)
    IN  IF IsReply(response)
        THEN [chat |-> Finally(addMessage(c1, "assistant", Val(response.message))),
              ret |-> response.message]
        ELSE [chat |-> Finally(addMessage(c1, "system",
                        ErrorPrefix \o OrElse(response.error, UnknownError))),
              ret |-> None]

\* variant: the exception is swallowed without a message
SendRejected_Silent(c) ==
    [chat |-> Finally(hideTypingIndicator(c)), ret |-> None]

\* sendMessage after its await rejected: the catch block
SendRejected(c) ==
    [chat |-> Finally(addMessage(hideTypingIndicator(c), "system", GenericError)),
     ret |-> None]

\* String.prototype.toUpperCase on the roles
ToUpperCase(role) ==
    CASE role = "user" -> "USER"
      [] role = "assistant" -> "ASSISTANT"
      [] role = "system" -> "SYSTEM"

\* `${msg.role.toUpperCase()}: ${msg.content}`
ExportBlock(msg) == <<ToUpperCase(msg.role), ": ">> \o msg.content

\* the text that is the concatenation of the texts of q
RECURSIVE Concat(_)
Concat(q) == IF q = <<>> THEN <<>> ELSE Head(q) \o Concat(Tail(q))

\* blocks.join('\n\n')
JoinBlocks(blocks) == Concat(Join(blocks, <<"\n\n">>))

\* variant: the role is written as it is stored
exportHistory_RoleAsIs(c) ==
    IF Len(c.conversationHistory) = 0 THEN <<"No conversation history yet.">>
    ELSE JoinBlocks([i \in 1..Len(c.conversationHistory) |->
                        <<c.conversationHistory[i].role, ": ">>
                            \o c.conversationHistory[i].content])

\* ChatInterface.exportHistory
exportHistory(c) ==
    IF Len(c.conversationHistory) = 0 THEN <<"No conversation history yet.">>
    ELSE JoinBlocks([i \in 1..Len(c.conversationHistory) |->
                        ExportBlock(c.conversationHistory[i])])

\* variant: the messages of the cleared conversation stay in the context
clearMessages_KeepsHistory(c, p) ==
    LET c1 == [c EXCEPT !.rendered = <<>>,
                        !.typingIndicator =
                            IF c.messageContainer THEN FALSE ELSE @,
                        !.messageIdCounter = 0]
    IN  addWelcomeMessage(c1, p)

\* ChatInterface.clearMessages
clearMessages(c, p) ==
    LET c1 == [c EXCEPT !.conversationHistory = <<>>,
                        !.rendered = <<>>,
                        !.typingIndicator =
                            IF c.messageContainer THEN FALSE ELSE @,
                        !.messageIdCounter = 0]
    IN  addWelcomeMessage(c1, p)

\* new ChatInterface(userProfile) followed by initialize('chat-messages')
NewChat(p) ==
    addWelcomeMessage(
        [conversationHistory |-> <<>>, isLoading |-> FALSE,
         messageContainer |-> TRUE, rendered |-> <<>>,
         typingIndicator |-> FALSE, messageIdCounter |-> 0], p)

SetChat(c) ==
    /\ conversationHistory' = c.conversationHistory
    /\ isLoading' = c.isLoading
    /\ messageContainer' = c.messageContainer
    /\ rendered' = c.rendered
    /\ typingIndicator' = c.typingIndicator
    /\ messageIdCounter' = c.messageIdCounter

\* the record of a call: its name, its arguments and what it returned
NoCall ==
    [op |-> "new", arg |-> None, settled |-> TRUE, ret |-> None,
     response |-> [success |-> FALSE, message |-> None, error |-> None],
     stage |-> "", ok |-> FALSE, changed |-> FALSE,
     question |-> "", answer |-> [arr |-> FALSE, items |-> <<"">>],
     name |-> "", save |-> TRUE,
     cb |-> [does |-> "", arg |-> ""]]

\* a ChatInterface call: `arg` the text passed, `ret` the text returned
Call(op, arg, settled, ret) ==
    [NoCall EXCEPT !.op = op, !.arg = arg, !.settled = settled, !.ret = ret]

\* the continuation of sendMessage on the service's `response`
Resolved(response, ret) ==
    [NoCall EXCEPT !.op = "resolved", !.response = response, !.ret = ret]

\* a StageManager call: `stage` the stage passed, `ok` the value returned
StageCall(op, stage, ok) ==
    [NoCall EXCEPT !.op = op, !.stage = stage, !.ok = ok]

\* a UserProfile call: the question id and the answer passed (or the id of
\* the question returned), `ok` the value returned
ProfileCall(op, question, answer, ok) ==
    [NoCall EXCEPT !.op = op, !.question = question, !.answer = answer,
                   !.ok = ok]

\* a registration or removal of the callback `cb`; `changed` tells whether
\* the set of listeners changed
ListenerCall(op, cb, changed) ==
    [NoCall EXCEPT !.op = op, !.cb = cb, !.changed = changed]

\* removal of the i-th element
RemoveAt(q, i) == SubSeq(q, 1, i - 1) \o SubSeq(q, i + 1, Len(q))

\* renderChattingStage: the controller creates and initializes the chat
\* (on every entry into the stage: the ChatInterface of an earlier entry
\* is left behind with its container, still awaiting its requests; `changed`
\* tells whether there was one)
EnterChat ==
    /\ chatInterface' = TRUE
    /\ SetChat(NewChat(profile))
    /\ isComplete' = checkIfComplete(profile)
    /\ inflight' = <<>>
    /\ abandoned' = abandoned + Len(inflight)
    /\ lastOp' = [Call("initialize", None, TRUE, None)
                     EXCEPT !.changed = chatInterface]
    /\ UNCHANGED <<profile, currentQuestionIndex, stageVars>>

\* a call of sendMessage that the guards turn away
SendMessageRefused(arg) ==
    /\ chatInterface
    /\ IF AlreadyProcessing(Chat) THEN TRUE ELSE IsEmptyMessage(arg)
    /\ lastOp' = Call("sendMessage", arg, TRUE, None)
    /\ UNCHANGED <<profileVars, chatVars, stageVars>>

\* a call of sendMessage that is accepted, up to the await
SendMessageAccepted(arg) ==
    /\ chatInterface
    /\ ~AlreadyProcessing(Chat)
    /\ ~IsEmptyMessage(arg)
    /\ messageIdCounter + 2 <= MaxMsgs
    /\ Len(inflight) + abandoned < MaxInflight
    /\ LET r == SendAccepted(Chat, arg, profile)
       IN  /\ SetChat(r.chat)
           /\ inflight' = Append(inflight, r.request)
    /\ lastOp' = Call("sendMessage", arg, FALSE, None)
    /\ UNCHANGED <<profileVars, chatInterface, abandoned, stageVars>>

\* the backend answers a request and the awaiting sendMessage continues
Respond(i, o) ==
    /\ i \in 1..Len(inflight)
    /\ LET r == SendResolved(Chat, ServiceResult(o))
       IN  /\ SetChat(r.chat)
           /\ lastOp' = Resolved(ServiceResult(o), r.ret)
    /\ inflight' = RemoveAt(inflight, i)
    /\ UNCHANGED <<profileVars, chatInterface, abandoned, stageVars>>

\* the awaited service call throws and the awaiting sendMessage continues
CollaboratorThrows(i) ==
    /\ i \in 1..Len(inflight)
    /\ LET r == SendRejected(Chat)
       IN  /\ SetChat(r.chat)
           /\ lastOp' = Call("rejected", None, TRUE, r.ret)
    /\ inflight' = RemoveAt(inflight, i)
    /\ UNCHANGED <<profileVars, chatInterface, abandoned, stageVars>>

\* the backend answers a request of a ChatInterface that has been replaced:
\* its sendMessage continues on the fields and the container of that
\* ChatInterface, which nothing shows any more
RespondAbandoned ==
    /\ abandoned > 0
    /\ abandoned' = abandoned - 1
    /\ lastOp' = Call("resolvedAbandoned", None, TRUE, None)
    /\ UNCHANGED <<profileVars, chatInterface, conversationHistory, isLoading,
                   messageContainer, rendered, typingIndicator,
                   messageIdCounter, inflight, stageVars>>

ClearMessages ==
    /\ chatInterface
    /\ SetChat(clearMessages(Chat, profile))
    /\ isComplete' = checkIfComplete(profile)
    /\ lastOp' = [Call("clearMessages", None, TRUE, None)
                     EXCEPT !.changed = (messageIdCounter > 1)]
    /\ UNCHANGED <<profile, currentQuestionIndex, chatInterface, inflight,
                   abandoned, stageVars>>

\* the click handler of the 'New Conversation' button
NewConversation ==
    /\ chatInterface
    /\ SetChat(addWelcomeMessage(clearMessages(Chat, profile), profile))
    /\ isComplete' = checkIfComplete(profile)
    /\ lastOp' = [Call("newConversation", None, TRUE, None)
                     EXCEPT !.changed = (messageIdCounter > 1)]
    /\ UNCHANGED <<profile, currentQuestionIndex, chatInterface, inflight,
                   abandoned, stageVars>>

\* a call of exportHistory: `ret` the text it returns
ExportHistory ==
    /\ chatInterface
    /\ lastOp' = Call("exportHistory", None, TRUE, Some(exportHistory(Chat)))
    /\ UNCHANGED <<profileVars, chatVars, stageVars>>

\* profiles a chat can be bound to
ChatProfiles ==
    { EmptyProfile,
      [name |-> "Sam", goals |-> Arr(<<"Weight Loss", "Endurance">>),
       level |-> Str("Advanced"), equipment |-> Arr(<<"No Equipment">>),
       time |-> Str("60+ minutes"), completedAt |-> None] }

InitStage ==
    /\ currentStage = WELCOME
    /\ stageHistory = <<>>
    /\ listeners = <<>>
    /\ isTransitioning = FALSE
    /\ notified = <<>>
    /\ lastTarget = WELCOME

InitNoChat ==
    /\ chatInterface = FALSE
    /\ conversationHistory = <<>>
    /\ isLoading = FALSE
    /\ messageContainer = FALSE
    /\ rendered = <<>>
    /\ typingIndicator = FALSE
    /\ messageIdCounter = 0
    /\ inflight = <<>>
    /\ abandoned = 0

InitChat ==
    /\ profile \in ChatProfiles
    /\ currentQuestionIndex = 0
    /\ isComplete = FALSE
    /\ InitNoChat
    /\ InitStage
    /\ lastOp = NoCall

NextChat ==
    \/ EnterChat
    \/ \E arg \in MessageArgs : SendMessageRefused(arg)
    \/ \E arg \in MessageArgs : SendMessageAccepted(arg)
    \/ \E i \in 1..Len(inflight), o \in BackendOutcomes : Respond(i, o)
    \/ \E i \in 1..Len(inflight) : CollaboratorThrows(i)
    \/ RespondAbandoned
    \/ ClearMessages

SpecChat == InitChat /\ [][NextChat]_vars

\* the backend answers every request, or the call fails
FairSpecChat ==
    SpecChat /\ WF_vars(\E i \in 1..Len(inflight), o \in BackendOutcomes : Respond(i, o))

\* -------------------------------------------------------- StageManager
\* the fields of a StageManager, as one record; `thrown` is an exception on
\* its way out of the call under way
Manager ==
    [currentStage |-> currentStage,
     stageHistory |-> stageHistory,
     listeners |-> listeners,
     isTransitioning |-> isTransitioning,
     notified |-> notified,
     lastTarget |-> lastTarget,
     thrown |-> FALSE]

\* variant: no validation of the stage
IsValidStage_Any(stage) == TRUE

\* Object.values(config.stages).includes(newStage)
IsValidStage(stage) == \E i \in 1..Len(Stages) : Stages[i] = stage

\* the values a caller can pass as a stage: the four stages and another
StageArgs == {WELCOME, ONBOARDING, SUMMARY, CHATTING, "settings"}

\* callbacks a client can register: one that throws once it has looked at
\* its arguments, and one that calls setStage
Callbacks ==
    { [does |-> "throw", arg |-> ""],
      [does |-> "setStage", arg |-> SUMMARY] }

\* callbacks that call goBack and reset
ReentrantCallbacks ==
    { [does |-> "goBack", arg |-> ""],
      [does |-> "reset", arg |-> ""] }

\* a callback that only looks, and one that calls nextStage, as the
\* application's own listener does
ForwardCallbacks ==
    { [does |-> "nothing", arg |-> ""],
      [does |-> "nextStage", arg |-> ""] }

\* callbacks that make no call into the manager: one that only looks, one
\* that throws
PlainCallbacks ==
    { [does |-> "nothing", arg |-> ""],
      [does |-> "throw", arg |-> ""] }

\* a value that is not a function
NotAFunction == [does |-> "", arg |-> ""]

\* typeof callback === 'function'
IsFunction(cb) == cb # NotAFunction

Result(m, ret) == [m |-> m, ret |-> ret]

\* variant: no guard against a transition in progress
InTransition_Never(m) == FALSE

\* the guard of setStage against a transition in progress
InTransition(m) == m.isTransitioning

\* variant: no shortcut for the stage the manager is in
SameStage_Never(m, newStage) == FALSE

\* setStage returns true for the stage the manager is in
SameStage(m, newStage) == m.currentStage = newStage

\* variant: the guard is left set
ClearGuard_Skipped(m) == m

\* this.isTransitioning = false, at the end of setStage
ClearGuard(m) == [m EXCEPT !.isTransitioning = FALSE]

\* variant: no try/catch around the callback
Catch_Missing(m) == m

\* the try/catch of notifyListeners around each callback
Catch(m) == [m EXCEPT !.thrown = FALSE]

\* what a caller inside a listener can see of the manager
View(m) ==
    [stage |-> m.currentStage, history |-> m.stageHistory,
     rounds |-> Len(m.notified)]

\* the record of a call made from inside a listener: the stage it was made
\* in, what it returned, and the manager before and after it
NestedCall(op, arg, m, r) ==
    <<[op |-> op, arg |-> arg, at |-> m.currentStage, ret |-> r.ret,
       pre |-> View(m), post |-> View(r.m)]>>

RECURSIVE setStage(_, _, _)
RECURSIVE notifyFrom(_, _, _, _)
RECURSIVE runCallback(_, _)

\* StageManager.setStage; an exception out of notifyListeners skips the
\* statements after it
setStage(m, newStage, saveToHistory) ==
    IF ~IsValidStage(newStage) THEN Result(m, FALSE)
    ELSE IF InTransition(m) THEN Result(m, FALSE)
    ELSE IF SameStage(m, newStage)
         THEN Result([m EXCEPT !.lastTarget = newStage], TRUE)
    ELSE LET m1 == [m EXCEPT !.isTransitioning = TRUE]
             m2 == IF saveToHistory
                   THEN [m1 EXCEPT !.stageHistory = Append(@, m.currentStage)]
                   ELSE m1
             previousStage == m2.currentStage
             m3 == [m2 EXCEPT !.currentStage = newStage]
             m4 == notifyFrom(m3, 1, newStage, previousStage)
             m5 == ClearGuard(m4)
         IN  IF m4.thrown THEN Result(m4, FALSE)
             ELSE Result([m5 EXCEPT !.lastTarget = newStage], TRUE)

\* StageManager.goBack
goBack(m) ==
    IF Len(m.stageHistory) = 0 THEN Result(m, FALSE)
    ELSE LET previousStage == Last(m.stageHistory)
             m1 == [m EXCEPT !.stageHistory = SubSeq(@, 1, Len(@) - 1)]
         IN  setStage(m1, previousStage, FALSE)

\* variant: after the last stage comes the first
StageFlow_Wraps(stage) ==
    IF stage = WELCOME THEN Some(ONBOARDING)
    ELSE IF stage = ONBOARDING THEN Some(SUMMARY)
    ELSE IF stage = SUMMARY THEN Some(CHATTING)
    ELSE Some(WELCOME)

\* the stageFlow table of nextStage
StageFlow(stage) ==
    IF stage = WELCOME THEN Some(ONBOARDING)
    ELSE IF stage = ONBOARDING THEN Some(SUMMARY)
    ELSE IF stage = SUMMARY THEN Some(CHATTING)
    ELSE None

\* StageManager.nextStage
nextStage(m) ==
    IF IsSome(StageFlow(m.currentStage))
    THEN setStage(m, Val(StageFlow(m.currentStage)), TRUE)
    ELSE Result(m, FALSE)

\* StageManager.reset
reset(m) == setStage([m EXCEPT !.stageHistory = <<>>], WELCOME, FALSE).m

\* what a registered callback does when it is invoked; the calls it makes
\* into the manager are logged
runCallback(m, cb) ==
    IF cb.does = "setStage"
    THEN LET r == setStage(m, cb.arg, TRUE)
         IN  Result(r.m, NestedCall("setStage", cb.arg, m, r))
    ELSE IF cb.does = "goBack"
    THEN LET r == goBack(m)
         IN  Result(r.m, NestedCall("goBack", "", m, r))
    ELSE IF cb.does = "nextStage"
    THEN LET r == nextStage(m)
         IN  Result(r.m, NestedCall("nextStage", "", m, r))
    ELSE IF cb.does = "reset"
    THEN LET r == Result(reset(m), FALSE)
         IN  Result(r.m, NestedCall("reset", "", m, r))
    ELSE IF cb.does = "throw"
    THEN Result([m EXCEPT !.thrown = TRUE], <<>>)
    ELSE IF cb.does = "render" /\ cb.arg = "noQuestion"
                               /\ m.currentStage = ONBOARDING
    THEN LET r == nextStage(m)
         IN  Result(r.m, NestedCall("nextStage", "", m, r))
    ELSE Result(m, <<>>)

\* StageManager.notifyListeners, from the i-th listener on: each callback
\* gets (newStage, previousStage) and sees the manager's stage `seen`
notifyFrom(m, i, newStage, previousStage) ==
    IF i > Len(m.listeners) THEN m
    ELSE LET cb == m.listeners[i]
             r == runCallback(m, cb)
             entry == [listener |-> cb, newStage |-> newStage,
                       previousStage |-> previousStage,
                       seen |-> m.currentStage, calls |-> r.ret]
             m1 == Catch([r.m EXCEPT !.notified = Append(@, entry)])
         IN  IF m1.thrown THEN m1
             ELSE notifyFrom(m1, i + 1, newStage, previousStage)

InListeners(m, cb) == \E i \in 1..Len(m.listeners) : m.listeners[i] = cb

\* StageManager.addListener (a Set keeps one copy, in insertion order)
addListener(m, cb) ==
    IF ~IsFunction(cb) THEN m
    ELSE IF InListeners(m, cb) THEN m
    ELSE [m EXCEPT !.listeners = Append(@, cb)]

\* variant: the callback stays registered
removeListener_Noop(m, cb) == m

\* StageManager.removeListener, and the function addListener returns
removeListener(m, cb) ==
    [m EXCEPT !.listeners = SelectSeq(@, LAMBDA x : x # cb)]

\* Array.prototype.indexOf: the position from 0, or -1
IndexOf(q, x) ==
    IF \E i \in 1..Len(q) : q[i] = x
    THEN (CHOOSE i \in 1..Len(q) :
              q[i] = x /\ \A j \in 1..(i - 1) : q[j] # x) - 1
    ELSE -1

\* the stageOrder list of canNavigateTo
StageOrder == <<WELCOME, ONBOARDING, SUMMARY, CHATTING>>

\* StageManager.canNavigateTo
canNavigateTo(m, stage) ==
    IF IndexOf(m.stageHistory, stage) >= 0 THEN TRUE
    ELSE LET currentIndex == IndexOf(StageOrder, m.currentStage)
             targetIndex == IndexOf(StageOrder, stage)
         IN  targetIndex <= currentIndex + 1

SetManager(m) ==
    /\ currentStage' = m.currentStage
    /\ stageHistory' = m.stageHistory
    /\ listeners' = m.listeners
    /\ isTransitioning' = m.isTransitioning
    /\ notified' = m.notified
    /\ lastTarget' = m.lastTarget

\* a call starts with an empty log of listener invocations
Fresh(m) == [m EXCEPT !.notified = <<>>]

SetStage(newStage, saveToHistory) ==
    /\ \E r \in {setStage(Fresh(Manager), newStage, saveToHistory)} :
           /\ Len(r.m.stageHistory) <= MaxHistory
           /\ SetManager(r.m)
           /\ lastOp' = [StageCall("setStage", newStage, r.ret)
                            EXCEPT !.save = saveToHistory]
    /\ UNCHANGED <<profileVars, chatVars>>

GoBack ==
    /\ \E r \in {goBack(Fresh(Manager))} :
           /\ SetManager(r.m)
           /\ lastOp' = StageCall("goBack", "", r.ret)
    /\ UNCHANGED <<profileVars, chatVars>>

NextStage ==
    /\ \E r \in {nextStage(Fresh(Manager))} :
           /\ Len(r.m.stageHistory) <= MaxHistory
           /\ SetManager(r.m)
           /\ lastOp' = StageCall("nextStage", "", r.ret)
    /\ UNCHANGED <<profileVars, chatVars>>

Reset ==
    /\ \E m \in {reset(Fresh(Manager))} : SetManager(m)
    /\ lastOp' = StageCall("reset", "", FALSE)
    /\ UNCHANGED <<profileVars, chatVars>>

AddListener(cb) ==
    /\ \E m \in {addListener(Fresh(Manager), cb)} :
           /\ SetManager(m)
           /\ lastOp' = ListenerCall("addListener", cb, m.listeners # listeners)
    /\ UNCHANGED <<profileVars, chatVars>>

RemoveListener(cb) ==
    /\ \E m \in {removeListener(Fresh(Manager), cb)} :
           /\ SetManager(m)
           /\ lastOp' = ListenerCall("removeListener", cb, m.listeners # listeners)
    /\ UNCHANGED <<profileVars, chatVars>>

\* a query: the fields of the manager are left as they are
CanNavigateTo(stage) ==
    /\ SetManager(Fresh(Manager))
    /\ lastOp' = StageCall("canNavigateTo", stage, canNavigateTo(Manager, stage))
    /\ UNCHANGED <<profileVars, chatVars>>

\* a client calls setStage(newStage) and goBack() one after the other;
\* `changed` tells whether setStage changed the stage, `ok` is what goBack
\* returned
SetStageThenGoBack(newStage) ==
    /\ \E r1 \in {setStage(Fresh(Manager), newStage, TRUE)} :
        \E r2 \in {goBack(Fresh(r1.m))} :
           /\ Len(r1.m.stageHistory) <= MaxHistory
           /\ SetManager(r2.m)
           /\ lastOp' = [StageCall("setStage;goBack", newStage, r2.ret)
                            EXCEPT !.changed =
                                r1.ret /\ r1.m.currentStage # currentStage]
    /\ UNCHANGED <<profileVars, chatVars>>

InitManager ==
    /\ profile = EmptyProfile
    /\ currentQuestionIndex = 0
    /\ isComplete = FALSE
    /\ InitNoChat
    /\ InitStage
    /\ lastOp = NoCall

NextManager ==
    \/ \E s \in StageArgs, save \in BOOLEAN : SetStage(s, save)
    \/ GoBack
    \/ NextStage
    \/ Reset
    \/ \E cb \in Callbacks \cup {NotAFunction} : AddListener(cb)
    \/ \E cb \in Callbacks : RemoveListener(cb)
    \/ \E s \in StageArgs : CanNavigateTo(s)

SpecManager == InitManager /\ [][NextManager]_vars

\* the manager with listeners that call goBack, nextStage and reset
NextReentrant ==
    \/ \E s \in StageArgs, save \in BOOLEAN : SetStage(s, save)
    \/ GoBack
    \/ NextStage
    \/ Reset
    \/ \E cb \in ReentrantCallbacks : AddListener(cb)
    \/ \E cb \in ReentrantCallbacks : RemoveListener(cb)
    \/ \E s \in StageArgs : SetStageThenGoBack(s)

SpecReentrant == InitManager /\ [][NextReentrant]_vars

\* the manager with a listener that calls nextStage
NextForward ==
    \/ \E s \in StageArgs, save \in BOOLEAN : SetStage(s, save)
    \/ GoBack
    \/ NextStage
    \/ Reset
    \/ \E cb \in ForwardCallbacks : AddListener(cb)
    \/ \E cb \in ForwardCallbacks : RemoveListener(cb)

SpecForward == InitManager /\ [][NextForward]_vars

\* the manager with listeners that make no call into it
NextPlain ==
    \/ \E s \in StageArgs, save \in BOOLEAN : SetStage(s, save)
    \/ GoBack
    \/ NextStage
    \/ Reset
    \/ \E cb \in PlainCallbacks : AddListener(cb)
    \/ \E cb \in PlainCallbacks : RemoveListener(cb)

SpecPlain == InitManager /\ [][NextPlain]_vars

\* ---------------------------------------------------- UserProfile calls
SetUser(u) ==
    /\ profile' = u.profile
    /\ currentQuestionIndex' = u.currentQuestionIndex
    /\ isComplete' = u.isComplete

\* the id of the question a method returned, "" for null
ReturnedId(question) == IF IsSome(question) THEN Val(question).id ELSE ""

SetAnswer(questionId, answer) ==
    /\ \E r \in {setAnswer(User, questionId, answer)} :
           /\ SetUser(r.u)
           /\ lastOp' = ProfileCall("setAnswer", questionId, answer, r.ret)
    /\ UNCHANGED <<chatVars, stageVars>>

NextQuestion(now) ==
    /\ \E r \in {nextQuestion(User, now)} :
           /\ SetUser(r.u)
           /\ lastOp' = ProfileCall("nextQuestion", ReturnedId(r.ret), Str(""),
                                    IsSome(r.ret))
    /\ UNCHANGED <<chatVars, stageVars>>

PreviousQuestion ==
    /\ \E r \in {previousQuestion(User)} :
           /\ SetUser(r.u)
           /\ lastOp' = ProfileCall("previousQuestion", ReturnedId(r.ret),
                                    Str(""), IsSome(r.ret))
    /\ UNCHANGED <<chatVars, stageVars>>

CheckIfComplete ==
    /\ profile' = profile
    /\ currentQuestionIndex' = currentQuestionIndex
    /\ isComplete' = checkIfComplete(profile)
    /\ lastOp' = ProfileCall("checkIfComplete", "", Str(""), checkIfComplete(profile))
    /\ UNCHANGED <<chatVars, stageVars>>

MarkComplete(now) ==
    /\ SetUser(markComplete(User, now))
    /\ lastOp' = ProfileCall("markComplete", "", Str(""), FALSE)
    /\ UNCHANGED <<chatVars, stageVars>>

ResetProfile ==
    /\ SetUser(UserProfile_reset(User))
    /\ lastOp' = [ProfileCall("reset", "", Str(""), FALSE)
                     EXCEPT !.changed = (UserProfile_reset(User) # User)]
    /\ UNCHANGED <<chatVars, stageVars>>

SetName(name) ==
    /\ \E r \in {setName(User, name)} :
           /\ SetUser(r.u)
           /\ lastOp' = [ProfileCall("setName", "", Str(""), r.ret)
                            EXCEPT !.name = name]
    /\ UNCHANGED <<chatVars, stageVars>>

\* a client calls nextQuestion() and previousQuestion() one after the
\* other; `changed` tells whether nextQuestion moved the cursor, `ok`
\* whether previousQuestion returned a question
NextThenPreviousQuestion(now) ==
    /\ \E r1 \in {nextQuestion(User, now)} :
        \E r2 \in {previousQuestion(r1.u)} :
           /\ SetUser(r2.u)
           /\ lastOp' = [ProfileCall("nextQuestion;previousQuestion",
                                     ReturnedId(r2.ret), Str(""), IsSome(r2.ret))
                            EXCEPT !.changed = IsSome(r1.ret)]
    /\ UNCHANGED <<chatVars, stageVars>>

InitProfile ==
    /\ profile = EmptyProfile
    /\ currentQuestionIndex = 0
    /\ isComplete = FALSE
    /\ InitNoChat
    /\ InitStage
    /\ lastOp = NoCall

NextProfile ==
    \/ \E q \in QuestionArgs, a \in AnswerArgs : SetAnswer(q, a)
    \/ \E now \in Timestamps : NextQuestion(now)
    \/ PreviousQuestion
    \/ CheckIfComplete
    \/ \E now \in Timestamps : MarkComplete(now)
    \/ ResetProfile

SpecProfile == InitProfile /\ [][NextProfile]_vars

\* the profile with names, blank answers and the cursor moved to and fro
NextUser ==
    \/ \E q \in QuestionArgs, a \in PlainAnswers : SetAnswer(q, a)
    \/ \E name \in NameArgs : SetName(name)
    \/ \E now \in Timestamps : NextQuestion(now)
    \/ PreviousQuestion
    \/ \E now \in Timestamps : NextThenPreviousQuestion(now)
    \/ CheckIfComplete
    \/ \E now \in Timestamps : MarkComplete(now)
    \/ ResetProfile

SpecUser == InitProfile /\ [][NextUser]_vars

\* the chat over a session: conversations started anew, the profile reset,
\* the stage entered again, the history exported
NextSession ==
    \/ NextChat
    \/ NewConversation
    \/ ExportHistory
    \/ ResetProfile

SpecSession == InitChat /\ [][NextSession]_vars

\* -------------------------------------------------------------- AiGymBuddy
\* the listener the application registers in init(): handleStageChange
\* renders the current stage; all it does to the manager is the nextStage()
\* of renderOnboardingStage when the profile `u` has no question left
handleStageChange(u) ==
    [does |-> "render",
     arg |-> IF IsSome(getCurrentQuestion(u)) THEN "" ELSE "noQuestion"]

\* the manager as a handler of the application calls it
AppManager(u) == [Fresh(Manager) EXCEPT !.listeners = <<handleStageChange(u)>>]

\* the answers the rendered inputs of a question can give: one option of a
\* radio group, the checked options of a checkbox group
InputAnswers(question) ==
    IF question.type = "checkbox"
    THEN { Arr(<<question.options[1]>>),
           Arr(<<question.options[1], question.options[2]>>) }
    ELSE { Str(question.options[1]) }

\* the texts of the message input
InputTexts == { <<>>, <<" ", "a", " ">> }

\* the answers of the backend in the application model
AppOutcomes == BackendOutcomes

\* a record of a click: the handler, the stage it left the application in,
\* what the StageManager call returned; `changed` tells whether a
\* ChatInterface was replaced
Click(op, stage, ok, replaced) ==
    [StageCall(op, stage, ok) EXCEPT !.changed = replaced]

\* the outcome of a handler: the StageManager call returned `r` with the
\* profile `u`, and handleStageChange has rendered the stage if it changed;
\* renderChattingStage creates the ChatInterface
Rendered(op, r, u) ==
    /\ Len(r.m.stageHistory) <= MaxAppHistory
    /\ SetManager(r.m)
    /\ IF r.m.notified # <<>> /\ r.m.currentStage = CHATTING
       THEN /\ chatInterface' = TRUE
            /\ SetChat(NewChat(u.profile))
            /\ inflight' = <<>>
            /\ abandoned' = abandoned + Len(inflight)
            /\ SetUser([u EXCEPT !.isComplete = checkIfComplete(u.profile)])
       ELSE /\ UNCHANGED chatVars
            /\ SetUser(u)
    /\ lastOp' = Click(op, r.m.currentStage, r.ret,
                       chatInterface /\ r.m.notified # <<>>
                                     /\ r.m.currentStage = CHATTING)

\* the click handler of 'Get Started'
GetStarted ==
    /\ currentStage = WELCOME
    /\ \E r \in {nextStage(AppManager(User))} : Rendered("getStarted", r, User)

\* handleNextQuestion, with `answer` checked in the inputs of the question
\* on display
HandleNextQuestion(answer, now) ==
    /\ currentStage = ONBOARDING
    /\ IsSome(getCurrentQuestion(User))
    /\ answer \in InputAnswers(Val(getCurrentQuestion(User)))
    /\ \E r1 \in {setAnswer(User, Val(getCurrentQuestion(User)).id, answer)} :
        \E r2 \in {nextQuestion(r1.u, now)} :
           IF IsSome(r2.ret)
           THEN /\ SetUser(r2.u)
                /\ lastOp' = Click("handleNextQuestion", currentStage, TRUE, FALSE)
                /\ UNCHANGED <<chatVars, stageVars>>
           ELSE \E r \in {nextStage(AppManager(r2.u))} :
                    Rendered("handleNextQuestion", r, r2.u)

\* the click handler of 'Previous', a button rendered when canGoBack
PreviousClick ==
    /\ currentStage = ONBOARDING
    /\ getProgress(User).canGoBack
    /\ SetUser(previousQuestion(User).u)
    /\ lastOp' = Click("previous", currentStage, TRUE, FALSE)
    /\ UNCHANGED <<chatVars, stageVars>>

\* the click handler of 'Edit Profile' on the Summary stage
SummaryEditProfile ==
    /\ currentStage = SUMMARY
    /\ \E r \in {goBack(AppManager(User))} : Rendered("summaryEditProfile", r, User)

\* the click handler of 'Start Chatting'
StartChat ==
    /\ currentStage = SUMMARY
    /\ \E r \in {nextStage(AppManager(User))} : Rendered("startChat", r, User)

\* the click handler of 'New Conversation'
NewConversationClick ==
    /\ currentStage = CHATTING
    /\ NewConversation

\* the click handler of 'Edit Profile' on the Chatting stage, confirmed
ChatEditProfile ==
    /\ currentStage = CHATTING
    /\ \E u \in {UserProfile_reset(User)} :
        \E r \in {setStage(AppManager(u), ONBOARDING, TRUE)} :
           Rendered("chatEditProfile", r, u)

\* sendChatMessage with `input` in the message input
SendChatMessage(input) ==
    /\ currentStage = CHATTING
    /\ IF Trim(input) = <<>> \/ isLoading
       THEN /\ lastOp' = Call("sendChatMessage", Some(input), TRUE, None)
            /\ UNCHANGED <<profileVars, chatVars, stageVars>>
       ELSE SendMessageAccepted(Some(Trim(input)))

InitApp ==
    /\ profile = EmptyProfile
    /\ currentQuestionIndex = 0
    /\ isComplete = FALSE
    /\ InitNoChat
    /\ currentStage = WELCOME
    /\ stageHistory = <<>>
    /\ listeners = <<handleStageChange(User)>>
    /\ isTransitioning = FALSE
    /\ notified = <<>>
    /\ lastTarget = WELCOME
    /\ lastOp = NoCall

\* the application as its controls drive it
NextApp ==
    \/ GetStarted
    \/ \E q \in 1..Len(Questions), now \in Timestamps :
           \E answer \in InputAnswers(Questions[q]) :
               HandleNextQuestion(answer, now)
    \/ PreviousClick
    \/ SummaryEditProfile
    \/ StartChat
    \/ NewConversationClick
    \/ ChatEditProfile
    \/ \E input \in InputTexts : SendChatMessage(input)
    \/ \E i \in 1..Len(inflight), o \in AppOutcomes : Respond(i, o)
    \/ RespondAbandoned

SpecApp == InitApp /\ [][NextApp]_vars

\* ===================================================================
\* Properties of the ChatInterface (checked under SpecChat / FairSpecChat)
\* ===================================================================
AllBlank(t) == \A i \in 1..Len(t) : t[i] = " "

\* t is raw without its leading and trailing white space
IsTrimOf(t, raw) ==
    \E i \in 0..Len(raw) :
        /\ i + Len(t) <= Len(raw)
        /\ SubSeq(raw, i + 1, i + Len(t)) = t
        /\ AllBlank(SubSeq(raw, 1, i))
        /\ AllBlank(SubSeq(raw, i + Len(t) + 1, Len(raw)))
        /\ t # <<>>
        /\ t[1] # " "
        /\ t[Len(t)] # " "

\* q2 is q1 with exactly one more entry at its end
OneAppended(q1, q2) == Len(q2) = Len(q1) + 1 /\ SubSeq(q2, 1, Len(q1)) = q1

\* the step is a sendMessage call that was accepted and now awaits the answer
AcceptedStep == lastOp'.op = "sendMessage" /\ ~lastOp'.settled

\* the step is a sendMessage call that returned at once
RefusedStep == lastOp'.op = "sendMessage" /\ lastOp'.settled

\* the step is the continuation of sendMessage after the service answered
ResolvedStep == lastOp'.op = "resolved"

\* the step is the continuation of sendMessage after the service call threw
RejectedStep == lastOp'.op = "rejected"

SomeRendered(role) == \E i \in 1..Len(rendered) : rendered[i].role = role

\* C1: at most one request is outstanding at any time, and a sendMessage
\* call made while isLoading is true returns null at once, adds nothing to
\* the transcript or to the context view and sends no request.
C1_SingleFlight ==
    [][ /\ Len(inflight') <= 1
        /\ (RefusedStep /\ isLoading) =>
              /\ lastOp'.ret = None
              /\ rendered' = rendered
              /\ conversationHistory' = conversationHistory
              /\ inflight' = inflight ]_vars

\* C1 witness: a non-empty message was turned away while a request is out
C1_Witness ==
    /\ lastOp.op = "sendMessage"
    /\ lastOp.settled
    /\ isLoading
    /\ Len(inflight) = 1
    /\ IsSome(lastOp.arg)
    /\ ~AllBlank(Val(lastOp.arg))

\* C2: isLoading is true only while an accepted call awaits its answer; when
\* the call settles (reply, reported failure or exception) the flag is false,
\* and if the backend answers, a raised flag is eventually cleared.
C2_FlagCleared ==
    /\ [](isLoading => Len(inflight) > 0)
    /\ [](lastOp.op \in {"resolved", "rejected"} => ~isLoading)
    /\ (isLoading ~> ~isLoading)

\* C2 witness: a second submission was accepted after an earlier one settled
C2_Witness ==
    /\ lastOp.op = "sendMessage"
    /\ ~lastOp.settled
    /\ isLoading
    /\ messageIdCounter >= 4

\* C3: an accepted sendMessage appends exactly one user message holding the
\* trimmed text and sends exactly one request; the answer appends exactly one
\* more entry: the assistant's text (which is returned) for a success with a
\* non-empty message, a system message (and null is returned) otherwise.
C3_OneExchange ==
    [][ /\ AcceptedStep =>
              /\ OneAppended(rendered, rendered')
              /\ Last(rendered').role = "user"
              /\ IsTrimOf(Last(rendered').content, Val(lastOp'.arg))
              /\ OneAppended(inflight, inflight')
        /\ ResolvedStep =>
              /\ OneAppended(rendered, rendered')
              /\ Len(inflight') = Len(inflight) - 1
              /\ IF /\ lastOp'.response.success
                    /\ lastOp'.response.message \notin {None, Some(<<>>)}
                 THEN /\ Last(rendered').role = "assistant"
                      /\ Last(rendered').content = Val(lastOp'.response.message)
                      /\ lastOp'.ret = lastOp'.response.message
                 ELSE /\ Last(rendered').role = "system"
                      /\ lastOp'.ret = None ]_vars

\* C3 witness: an exchange was completed by an assistant reply
C3_Witness ==
    /\ lastOp.op = "resolved"
    /\ IsSome(lastOp.ret)
    /\ Len(rendered) >= 3
    /\ rendered[Len(rendered) - 1].role = "user"
    /\ Last(rendered).role = "assistant"

\* C4 (as claimed): the message list of the request is the context view as it
\* was before the call, followed by the submitted text once.
C4_PriorContextOnly ==
    [][ AcceptedStep =>
            \E i, j \in 0..Len(Val(lastOp'.arg)) :
                /\ IsTrimOf(SubSeq(Val(lastOp'.arg), i + 1, j), Val(lastOp'.arg))
                /\ Last(inflight').messages =
                       Append(conversationHistory,
                              [role |-> "user",
                               content |-> SubSeq(Val(lastOp'.arg), i + 1, j)]) ]_vars

C6_ThrowHandled ==
    [][ RejectedStep =>
            /\ OneAppended(rendered, rendered')
            /\ Last(rendered') =
                  [role |-> "system", content |-> GenericError,
                   id |-> messageIdCounter + 1]
            /\ conversationHistory' = conversationHistory
            /\ lastOp'.settled
            /\ lastOp'.ret = None
            /\ ~isLoading' ]_vars

\* C6 witness: a submission was accepted after an exception had been shown
C6_Witness ==
    /\ lastOp.op = "sendMessage"
    /\ ~lastOp.settled
    /\ \E i \in 1..Len(rendered) :
          rendered[i].role = "system" /\ rendered[i].content = GenericError

\* C7: the context view never holds a system entry, and no request carries one
C7_NoSystemInContext ==
    /\ \A i \in 1..Len(conversationHistory) :
          conversationHistory[i].role # "system"
    /\ \A r \in 1..Len(inflight) :
          \A i \in 1..Len(inflight[r].messages) :
              inflight[r].messages[i].role # "system"

\* C7 witness: a request is out while the transcript shows a system message
C7_Witness ==
    /\ Len(inflight) = 1
    /\ SomeRendered("system")

\* C8: sendMessage with a missing, empty or all-blank text returns null, adds
\* nothing, sends nothing and leaves isLoading as it is.
C8_EmptyRefused ==
    [][ ( /\ lastOp'.op = "sendMessage"
          /\ IF IsSome(lastOp'.arg) THEN AllBlank(Val(lastOp'.arg)) ELSE TRUE ) =>
            /\ lastOp'.settled
            /\ lastOp'.ret = None
            /\ rendered' = rendered
            /\ conversationHistory' = conversationHistory
            /\ inflight' = inflight
            /\ isLoading' = isLoading ]_vars

\* C8 witness: an all-blank text was turned away while nothing was outstanding
C8_Witness ==
    /\ lastOp.op = "sendMessage"
    /\ lastOp.settled
    /\ ~isLoading
    /\ IsSome(lastOp.arg)
    /\ Len(Val(lastOp.arg)) > 0
    /\ AllBlank(Val(lastOp.arg))

\* ===================================================================
\* Properties of the StageManager (checked under SpecManager)
\* ===================================================================
RecognizedStages == {"welcome", "onboarding", "summary", "chatting"}

\* every call a listener made into the manager during the last operation
NestedCalls(log) ==
    {log[i].calls[1] : i \in {j \in 1..Len(log) : Len(log[j].calls) = 1}}

\* C9: setStage with a value that is not a stage returns false and changes
\* neither the stage, the history nor the guard, and notifies nobody; the
\* current stage is the target of the last setStage that returned true.
C9_InvalidStageRejected ==
    [][ /\ (lastOp'.op = "setStage" /\ lastOp'.stage \notin RecognizedStages) =>
                  /\ lastOp'.ok = FALSE
                  /\ currentStage' = currentStage
                  /\ stageHistory' = stageHistory
                  /\ isTransitioning' = isTransitioning
                  /\ notified' = <<>>
        /\ currentStage' = lastTarget'
        /\ currentStage' \in RecognizedStages ]_vars

\* C9 witness: an unknown stage was refused with history and listeners present
C9_Witness ==
    /\ lastOp.op = "setStage"
    /\ lastOp.stage = "settings"
    /\ lastOp.ok = FALSE
    /\ Len(stageHistory) > 0
    /\ Len(listeners) > 0

\* C10 (as claimed): in every state, a listener's included, setStage with the
\* current stage returns true and changes nothing.
C10_SelfTransitionAlways ==
    [][ /\ (lastOp'.op = "setStage" /\ lastOp'.stage = currentStage) =>
                  /\ lastOp'.ok = TRUE
                  /\ currentStage' = currentStage
                  /\ stageHistory' = stageHistory
                  /\ notified' = <<>>
        /\ \A c \in NestedCalls(notified') : c.arg = c.at => c.ret = TRUE ]_vars

\* C10 (amended): while no transition is in progress, setStage with the
\* current stage returns true, leaves the stage and the history as they are
\* and notifies no listener.
C10_SelfTransitionWhenIdle ==
    [][ ( /\ lastOp'.op = "setStage"
          /\ lastOp'.stage = currentStage
          /\ ~isTransitioning ) =>
            /\ lastOp'.ok = TRUE
            /\ currentStage' = currentStage
            /\ stageHistory' = stageHistory
            /\ notified' = <<>> ]_vars

\* C10 witness: a self transition returned true with listeners registered
\* and none of them notified
C10_Witness ==
    /\ lastOp.op = "setStage"
    /\ lastOp.stage = currentStage
    /\ lastOp.ok = TRUE
    /\ Len(stageHistory) > 0
    /\ Len(listeners) > 0
    /\ notified = <<>>

\* the outermost calls that run setStage
TransitionOps == {"setStage", "goBack", "nextStage", "reset"}

\* the elements of a sequence
Range(q) == {q[i] : i \in 1..Len(q)}

\* C11: a setStage call made from inside a listener, while the transition
\* that notified the listener is in progress, returns false, leaves the stage
\* and the history as they were and starts no round of notifications.
C11_NestedSetStageRefused ==
    [][ \A c \in NestedCalls(notified') :
            c.op = "setStage" => (c.ret = FALSE /\ c.post = c.pre) ]_vars

\* C11 witness: a listener asked for a recognized stage other than the one
\* the manager was in, and was refused
C11_Witness ==
    \E c \in NestedCalls(notified) :
        /\ c.op = "setStage"
        /\ c.arg \in RecognizedStages
        /\ c.arg # c.at
        /\ c.ret = FALSE

\* C12: between calls the guard is clear, also after a call in which a
\* listener threw, and setStage with a recognized stage is never refused.
C12_GuardCleared ==
    [][ /\ ~isTransitioning
        /\ ~isTransitioning'
        /\ (lastOp'.op = "setStage" /\ lastOp'.stage \in RecognizedStages) =>
              lastOp'.ok = TRUE ]_vars

\* C12 witness: a transition in which a listener threw has returned with the
\* guard clear
C12_Witness ==
    /\ lastOp.op = "setStage"
    /\ lastOp.ok = TRUE
    /\ \E i \in 1..Len(notified) : notified[i].listener.does = "throw"
    /\ ~isTransitioning

C14_ListenerLifetime ==
    [][ /\ (lastOp'.op = "addListener" /\ IsFunction(lastOp'.cb)) =>
              Range(listeners') = Range(listeners) \cup {lastOp'.cb}
        /\ lastOp'.op = "removeListener" =>
              /\ Range(listeners') = Range(listeners) \ {lastOp'.cb}
              /\ listeners' = SelectSeq(listeners, LAMBDA x : x \in Range(listeners'))
        /\ lastOp'.op \notin {"addListener", "removeListener"} =>
              listeners' = listeners
        /\ {notified'[i].listener : i \in 1..Len(notified')} \subseteq Range(listeners)
        /\ currentStage' # currentStage =>
              {notified'[i].listener : i \in 1..Len(notified')} = Range(listeners)
      ]_vars

\* C14 witness: one of two registered listeners was removed, the other stays
C14_Witness ==
    /\ lastOp.op = "removeListener"
    /\ lastOp.changed
    /\ Len(listeners) = 1
    /\ listeners[1] # lastOp.cb

\* a sequence without its last element
Front(q) == SubSeq(q, 1, Len(q) - 1)

\* what the claim says of one goBack call, from the manager before it to
\* the manager after it
GoBackContract(stage, history, stage2, history2, ret) ==
    IF history = <<>>
    THEN ret = FALSE /\ stage2 = stage /\ history2 = history
    ELSE ret = TRUE /\ stage2 = Last(history) /\ history2 = Front(history)

\* C15: goBack on an empty history returns false and changes nothing; on
\* any other history it returns true, removes the most recent entry and
\* makes it the current stage, pushing nothing. Stated of every goBack call,
\* the ones made from inside a listener included.
C15_GoBackPopsOne ==
    [][ /\ lastOp'.op = "goBack" =>
              GoBackContract(currentStage, stageHistory,
                             currentStage', stageHistory', lastOp'.ok)
        /\ \A c \in NestedCalls(notified') :
              c.op = "goBack" =>
                  GoBackContract(c.pre.stage, c.pre.history,
                                 c.post.stage, c.post.history, c.ret) ]_vars

\* C16: when setStage(X) has changed the stage, a goBack() right after it
\* returns true and leaves the stage and the history as they were before
\* setStage(X).
C16_RoundTrip ==
    [][ (lastOp'.op = "setStage;goBack" /\ lastOp'.changed) =>
            /\ lastOp'.ok = TRUE
            /\ currentStage' = currentStage
            /\ stageHistory' = stageHistory ]_vars

\* the canonical order of the stages
CanonicalOrder == <<"welcome", "onboarding", "summary", "chatting">>

Position(stage) == CHOOSE i \in 1..Len(CanonicalOrder) : CanonicalOrder[i] = stage

\* what the claim says of one nextStage call
NextStageContract(stage, history, stage2, history2, ret) ==
    IF Position(stage) < Len(CanonicalOrder)
    THEN /\ ret = TRUE
         /\ stage2 = CanonicalOrder[Position(stage) + 1]
         /\ history2 = Append(history, stage)
    ELSE ret = FALSE /\ stage2 = stage /\ history2 = history

C18_ResetToWelcome ==
    [][ /\ lastOp'.op = "reset" =>
              (stageHistory' = <<>> /\ currentStage' = "welcome")
        /\ \A c \in NestedCalls(notified') :
              c.op = "reset" =>
                  (c.post.history = <<>> /\ c.post.stage = "welcome") ]_vars

\* C19: canNavigateTo(stage) is true exactly when the stage is in the history
\* or is a stage of the canonical order at most one position ahead of the
\* current stage; the call changes neither the stage, the history, the
\* listeners nor the guard.
C19_CanNavigateTo ==
    [][ lastOp'.op = "canNavigateTo" =>
            /\ lastOp'.ok =
                  ( \/ lastOp'.stage \in Range(stageHistory)
                    \/ /\ lastOp'.stage \in Range(CanonicalOrder)
                       /\ Position(lastOp'.stage) <= Position(currentStage) + 1 )
            /\ currentStage' = currentStage
            /\ stageHistory' = stageHistory
            /\ listeners' = listeners
            /\ isTransitioning' = isTransitioning ]_vars

\* the answer is drawn from the options of the question: one option of a
\* single-select question, a list of options of a multi-select question
FromOptions(questionId, answer) ==
    \E i \in 1..Len(Questions) :
        /\ Questions[i].id = questionId
        /\ IF Questions[i].type = "select"
           THEN /\ ~answer.arr
                /\ answer.items[1] \in Range(Questions[i].options)
           ELSE /\ answer.arr
                /\ Range(answer.items) \subseteq Range(Questions[i].options)

\* C20: setAnswer with a non-empty answer to one of the questions returns
\* true when the answer is drawn from the question's options, as
\* validateAnswer tells, and otherwise returns false and leaves the profile
\* as it is.
C20_AnswerValidated ==
    [][ ( /\ lastOp'.op = "setAnswer"
          /\ lastOp'.question \in {"goals", "level", "equipment", "time"}
          /\ lastOp'.answer \notin {Str(""), Arr(<<>>)} ) =>
            /\ validateAnswer(lastOp'.question, lastOp'.answer).valid =
                   FromOptions(lastOp'.question, lastOp'.answer)
            /\ IF FromOptions(lastOp'.question, lastOp'.answer)
               THEN lastOp'.ok = TRUE
               ELSE lastOp'.ok = FALSE /\ profile' = profile ]_vars

\* ---------------------------------------------------------- UserProfile claims
\* an answer setAnswer calls empty: the empty string or the empty list
EmptyAnswers == {Str(""), Arr(<<>>)}

\* the fields of the profile that hold the answers
AnswerFields == {"goals", "level", "equipment", "time"}

\* C21: setAnswer with an unrecognized question id or an empty answer (the
\* empty string or the empty list) returns false and leaves every profile
\* field, the cursor and the completion flag as they were; a successful
\* setAnswer overwrites that question's field only and does not move the
\* cursor.
C21_SetAnswer ==
    [][ lastOp'.op = "setAnswer" =>
          IF \/ lastOp'.question \notin AnswerFields
             \/ lastOp'.answer \in EmptyAnswers
          THEN /\ lastOp'.ok = FALSE
               /\ profile' = profile
               /\ currentQuestionIndex' = currentQuestionIndex
               /\ isComplete' = isComplete
          ELSE /\ lastOp'.ok = TRUE
               /\ profile'[lastOp'.question] = lastOp'.answer
               /\ \A f \in DOMAIN profile \ {lastOp'.question} :
                      profile'[f] = profile[f]
               /\ currentQuestionIndex' = currentQuestionIndex ]_vars

\* an empty list was refused for a question that keeps its earlier answer,
\* with the cursor away from the start
C21_Witness ==
    /\ lastOp.op = "setAnswer"
    /\ lastOp.question = "equipment"
    /\ lastOp.answer = Arr(<<>>)
    /\ lastOp.ok = FALSE
    /\ profile.equipment = Arr(<<"Home Weights">>)
    /\ currentQuestionIndex = 2

\* a value that is not empty: a list with an item, a string with a character
NonEmpty(value) ==
    IF value.arr THEN value.items # <<>> ELSE value.items[1] # ""

\* a value that is not empty once a string is trimmed of its white space
NonEmptyTrimmed(value) ==
    IF value.arr THEN value.items # <<>> ELSE value.items[1] \notin {"", " "}

C23_NextQuestion ==
    [][ lastOp'.op = "nextQuestion" =>
          IF currentQuestionIndex < Len(Questions) - 1
          THEN /\ currentQuestionIndex' = currentQuestionIndex + 1
               /\ lastOp'.ok = TRUE
               /\ lastOp'.question = Questions[currentQuestionIndex' + 1].id
               /\ profile' = profile
               /\ isComplete' = isComplete
          ELSE /\ currentQuestionIndex' = currentQuestionIndex
               /\ profile'.completedAt \in {Some(now) : now \in Timestamps}
               /\ isComplete' = TRUE
               /\ lastOp'.ok = FALSE ]_vars

\* nextQuestion returned none at the last question and completed a profile
\* that has no answer to the last question
C23_Witness ==
    /\ lastOp.op = "nextQuestion"
    /\ lastOp.ok = FALSE
    /\ currentQuestionIndex = Len(Questions) - 1
    /\ isComplete
    /\ IsSome(profile.completedAt)
    /\ profile.time = Str("")

\* C24: previousQuestion moves the cursor back by one when it is above zero
\* and returns the question under it, and at zero returns none and changes
\* nothing; from every cursor position before the last question,
\* nextQuestion followed by previousQuestion restores the cursor; neither
\* changes an answer of the profile.
C24_PreviousQuestion ==
    [][ /\ lastOp'.op = "previousQuestion" =>
              IF currentQuestionIndex > 0
              THEN /\ currentQuestionIndex' = currentQuestionIndex - 1
                   /\ lastOp'.ok = TRUE
                   /\ lastOp'.question = Questions[currentQuestionIndex' + 1].id
              ELSE /\ lastOp'.ok = FALSE
                   /\ currentQuestionIndex' = currentQuestionIndex
                   /\ profile' = profile
                   /\ isComplete' = isComplete
        /\ ( /\ lastOp'.op = "nextQuestion;previousQuestion"
             /\ currentQuestionIndex < Len(Questions) - 1 ) =>
              /\ lastOp'.changed
              /\ currentQuestionIndex' = currentQuestionIndex
        /\ lastOp'.op \in {"nextQuestion", "previousQuestion",
                           "nextQuestion;previousQuestion"} =>
              \A f \in AnswerFields : profile'[f] = profile[f] ]_vars

\* nextQuestion moved the cursor from the question before the last one and
\* previousQuestion brought it back, the answers given so far in place
C24_Witness ==
    /\ lastOp.op = "nextQuestion;previousQuestion"
    /\ lastOp.changed
    /\ lastOp.ok
    /\ lastOp.question = "equipment"
    /\ currentQuestionIndex = Len(Questions) - 2
    /\ profile.level = Str("Intermediate")

\* C25: after reset(), from any state, every answer and the name are empty,
\* the completion time is null, the completion flag false and the cursor
\* zero: the profile equals a newly constructed one.
C25_Reset ==
    [][ lastOp'.op = "reset" =>
          /\ profile'.name = ""
          /\ profile'.goals = Arr(<<>>)
          /\ profile'.level = Str("")
          /\ profile'.equipment = Arr(<<>>)
          /\ profile'.time = Str("")
          /\ profile'.completedAt = None
          /\ isComplete' = FALSE
          /\ currentQuestionIndex' = 0
          /\ User' = [profile |-> EmptyProfile, currentQuestionIndex |-> 0,
                       isComplete |-> FALSE] ]_vars

\* reset() acted on a profile that differed from a new one
C25_Witness ==
    /\ lastOp.op = "reset"
    /\ lastOp.changed
    /\ profile = EmptyProfile

\* ------------------------------------------------------------ session claims
\* the calls that start a conversation: a new ChatInterface, clearMessages,
\* the 'New Conversation' button
Restarts == {"initialize", "clearMessages", "newConversation"}

\* C26 as stated: over any sequence of sendMessage, clearMessages and
\* entries into the Chatting stage, a message never receives an identifier
\* that a message created before it received.
C26_NeverSameId ==
    [][ \A i \in DOMAIN rendered' :
          (lastOp'.op \in Restarts \/ i > Len(rendered)) =>
              \A j \in DOMAIN rendered : rendered[j].id # rendered'[i].id ]_vars

\* C26: within one conversation, from the creation of the ChatInterface or
\* the last clearMessages on, identifiers are strictly increasing in
\* creation order and so unique; clearMessages and every new ChatInterface
\* restart the counter, and the first message of the conversation they
\* start is number 1 again.
C26_UniqueInConversation ==
    [][ /\ \A i, j \in DOMAIN rendered' :
              i < j => rendered'[i].id < rendered'[j].id
        /\ \A i \in DOMAIN rendered' : rendered'[i].id <= messageIdCounter'
        /\ IF lastOp'.op \in Restarts
           THEN rendered'[1].id = 1
           ELSE /\ Len(rendered') >= Len(rendered)
                /\ SubSeq(rendered', 1, Len(rendered)) = rendered
                /\ \A i \in (Len(rendered) + 1)..Len(rendered') :
                       rendered'[i].id > messageIdCounter ]_vars

\* clearMessages ended a conversation of several messages, and the greeting
\* of the new one is number 1
C26_Witness ==
    /\ lastOp.op = "clearMessages"
    /\ lastOp.changed
    /\ rendered[1].id = 1
    /\ messageIdCounter = 1

\* the entries of q that are not of the system role
NonSystem(q) == SelectSeq(q, LAMBDA m : m.role # "system")

\* one 'ROLE: content' block for every entry of q, in the order of q,
\* the blocks two line feeds apart
BlocksOf(q) ==
    JoinBlocks([i \in 1..Len(q) |->
        <<CASE q[i].role = "user" -> "USER"
            [] q[i].role = "assistant" -> "ASSISTANT"
            [] q[i].role = "system" -> "SYSTEM", ": ">> \o q[i].content])

\* C27 as stated: exportHistory returns one 'ROLE: content' block for
\* every entry of the transcript, those of the system role included, in
\* transcript order.
C27_EveryEntry ==
    lastOp.op = "exportHistory" => lastOp.ret = Some(BlocksOf(rendered))

\* C27: exportHistory returns one 'ROLE: content' block for every user and
\* assistant entry of the transcript, in transcript order, and none for an
\* entry of the system role: the blocks are as many as the user and
\* assistant messages added since the transcript was last cleared.
C27_ContextEntries ==
    lastOp.op = "exportHistory" =>
        /\ lastOp.ret = Some(BlocksOf(NonSystem(rendered)))
        /\ Len(NonSystem(rendered)) = Len(conversationHistory)

\* an export of a conversation that holds an error notice of the system
\* role among its messages
C27_Witness ==
    /\ lastOp.op = "exportHistory"
    /\ \E i \in DOMAIN rendered : rendered[i].role = "system"
    /\ Len(conversationHistory) >= 3
    /\ Len(rendered) > Len(conversationHistory)

\* the greeting for the profile: by name and goals when the four answers
\* are given, the general one otherwise
GreetingFor(p) ==
    IF \A f \in AnswerFields : NonEmptyTrimmed(p[f])
    THEN PersonalGreeting(p)
    ELSE GenericGreeting

\* C28: when clearMessages() returns, the transcript and the context view
\* consist of exactly one message, a greeting of the assistant.
C28_ClearLeavesGreeting ==
    [][ lastOp'.op = "clearMessages" =>
          /\ Len(rendered') = 1
          /\ rendered'[1].role = "assistant"
          /\ rendered'[1].content = GreetingFor(profile)
          /\ conversationHistory' =
                 <<[role |-> "assistant", content |-> GreetingFor(profile)]>> ]_vars

\* clearMessages returned while a request was awaited, and left the greeting
C28_Witness ==
    /\ lastOp.op = "clearMessages"
    /\ lastOp.changed
    /\ Len(inflight) > 0
    /\ Len(rendered) = 1
    /\ Len(conversationHistory) = 1

\* C29: after the 'New Conversation' action the transcript holds exactly
\* one message, the greeting.
C29_NewConversation ==
    [][ lastOp'.op = "newConversation" =>
          /\ Len(rendered') = 1
          /\ rendered'[1].role = "assistant"
          /\ rendered'[1].content = GreetingFor(profile) ]_vars

\* C30: every entry into the Chatting stage leaves a new ChatInterface, not
\* loading and its identifier counter restarted, whose transcript and
\* context view hold exactly one greeting of the assistant: the personal
\* one if the profile is complete at that moment, the general one otherwise.
C30_EnterChatting ==
    [][ lastOp'.op = "initialize" =>
          /\ chatInterface'
          /\ isLoading' = FALSE
          /\ rendered' = <<[role |-> "assistant",
                            content |-> GreetingFor(profile), id |-> 1]>>
          /\ messageIdCounter' = 1
          /\ conversationHistory' =
                 <<[role |-> "assistant", content |-> GreetingFor(profile)]>>
          /\ inflight' = <<>> ]_vars

\* the stage was entered again with a complete profile, and the new
\* ChatInterface greets by name
C30_Witness ==
    /\ lastOp.op = "initialize"
    /\ lastOp.changed
    /\ profile.name = "Sam"
    /\ rendered[1].content = PersonalGreeting(profile)
    /\ Len(rendered) = 1
    /\ ~isLoading

C34_RefusedGoBack ==
    [][ /\ (lastOp'.op = "goBack" /\ lastOp'.ok = FALSE) =>
              (stageHistory' = stageHistory /\ currentStage' = currentStage)
        /\ \A c \in NestedCalls(notified') :
              (c.op = "goBack" /\ c.ret = FALSE) =>
                  (c.post.history = c.pre.history /\ c.post.stage = c.pre.stage)
      ]_vars

\* C35: if canNavigateTo(s) is true while no transition is in progress,
\* then setStage(s) returns true; canNavigateTo is false for every value
\* that is not a recognized stage.
C35_NavigableIsSettable ==
    [][ (lastOp'.op = "canNavigateTo" /\ ~isTransitioning) =>
            /\ lastOp'.ok => setStage(Fresh(Manager), lastOp'.stage, TRUE).ret
            /\ lastOp'.stage \notin RecognizedStages => lastOp'.ok = FALSE ]_vars

\* C36: over any sequence of UserProfile operations the completion flag
\* that getProgress reports is true only when all four required fields are
\* non-empty, as checkIfComplete would tell, and the completion time is set
\* only in such states.
C36_FlagMeansComplete ==
    /\ getProgress(User).isComplete =>
           (checkIfComplete(profile) /\ \A f \in AnswerFields : NonEmpty(profile[f]))
    /\ IsSome(profile.completedAt) =>
           (checkIfComplete(profile) /\ \A f \in AnswerFields : NonEmpty(profile[f]))

\* the most recent entry of the history is not the current stage, and no
\* two adjacent entries are equal
HistoryDistinct(stage, history) ==
    /\ history # <<>> => Last(history) # stage
    /\ \A i \in 1..(Len(history) - 1) : history[i] # history[i + 1]

\* a goBack that returned true changed the stage and notified every listener
GoBackMoves ==
    (lastOp'.op = "goBack" /\ lastOp'.ok) =>
        /\ currentStage' # currentStage
        /\ Len(notified') = Len(listeners')
        /\ \A i \in 1..Len(notified') :
              /\ notified'[i].newStage = currentStage'
              /\ notified'[i].previousStage = currentStage

\* C33 as stated: over any sequence of setStage, nextStage, goBack and
\* reset calls, none made from inside a listener, the most recent history
\* entry is never the current stage and no two adjacent entries are equal;
\* so every goBack that returns true changes the stage and notifies the
\* listeners.
C33_HistoryDistinctAlways ==
    [][ HistoryDistinct(currentStage', stageHistory') /\ GoBackMoves ]_vars

\* C33: over any sequence of nextStage, goBack, reset and setStage calls
\* that save to the history (saveToHistory at its default), none made from
\* inside a listener, the most recent history entry is never the current
\* stage and no two adjacent entries are equal, and every goBack that
\* returns true changes the stage and notifies the listeners. Stated of
\* each call: from a history of that kind, a call other than
\* setStage(s, false) leaves a history of that kind.
C33_HistoryDistinctWhenSaved ==
    [][ ( /\ HistoryDistinct(currentStage, stageHistory)
          /\ ~(lastOp'.op = "setStage" /\ ~lastOp'.save) ) =>
            (HistoryDistinct(currentStage', stageHistory') /\ GoBackMoves) ]_vars

\* goBack returned true from a history of three stages, with two listeners
\* notified, one of which throws
C33_Witness ==
    /\ lastOp.op = "goBack"
    /\ lastOp.ok
    /\ Len(listeners) = 2
    /\ Len(notified) = 2
    /\ currentStage = "summary"
    /\ stageHistory = <<"welcome", "onboarding">>

\* C38: after clearMessages() is called while a request is outstanding, the
\* response to that request is not appended to the new conversation: every
\* reply of the assistant in the context view, the greeting apart, comes
\* right after the user message it answers.
C38_ReplyFollowsQuestion ==
    \A i \in 2..Len(conversationHistory) :
        conversationHistory[i].role = "assistant" =>
            conversationHistory[i - 1].role = "user"

\* ------------------------------------------------------ application claims
\* C31: every 'edit profile' action of the application, the one on the
\* Summary stage and the confirmed one on the Chatting stage, resets the
\* profile (answers empty, cursor zero) and leaves the application in the
\* Onboarding stage.
C31_EditResetsProfile ==
    [][ lastOp'.op \in {"summaryEditProfile", "chatEditProfile"} =>
          /\ \A f \in AnswerFields : ~NonEmpty(profile'[f])
          /\ currentQuestionIndex' = 0
          /\ currentStage' = "onboarding" ]_vars

\* C37: in the application as its controls drive it, the Chatting stage is
\* entered only with a complete profile (the four required fields
\* non-empty), and the greeting for an incomplete profile is never shown.
C37_ChatOnlyWhenComplete ==
    /\ currentStage = "chatting" =>
           (\A f \in AnswerFields : NonEmpty(profile[f])) /\ chatInterface
    /\ \A i \in 1..Len(rendered) : rendered[i].content # GenericGreeting
    /\ \A i \in 1..Len(conversationHistory) :
           conversationHistory[i].content # GenericGreeting

\* the Chatting stage was entered a second time, after the profile had been
\* edited from the chat and the questions answered again
C37_Witness ==
    /\ lastOp.op = "startChat"
    /\ lastOp.changed
    /\ currentStage = "chatting"
    /\ stageHistory =
           <<"welcome", "onboarding", "summary", "chatting", "onboarding", "summary">>
    /\ rendered = <<[role |-> "assistant", content |-> PersonalGreeting(profile),
                     id |-> 1]>>

\* C39: across the session of the application at most one request to the
\* answering collaborator is outstanding at any time, also when the user
\* edits the profile while a request is in flight, completes the onboarding
\* again and sends a message in the new chat.
C39_OneRequestOutstanding ==
    Len(inflight) + abandoned <= 1

====
